---- MODULE Spec2Model ----
(***************************************************************************)
(* Model of the two Cursor chat launchers                                  *)
(*   .cursor/scripts/open_cursor_chat.py   (definitions prefixed occ_)     *)
(*   .cursor/scripts/run_new_agent.py      (definitions prefixed rna_)     *)
(* Each script parses its arguments, resolves a prompt and runs            *)
(* open_cursor_chat_hybrid, which tries cursor-agent, then (on macOS)      *)
(* osascript activation + keystroke simulation, then the cursor launcher.  *)
(* Text values are sequences of one-character strings.  The outcome of     *)
(* every external command is chosen by the environment when it is run.     *)
(***************************************************************************)
EXTENDS Integers, Sequences, FiniteSets, TLC

VARIABLES
    script,       \* which entry point is running
    platform,     \* sys.platform
    installed,    \* the external commands that exist on this host
    args,         \* argparse namespace: prompt, agent, model, workspace
    prompt,       \* the prompt handed to open_cursor_chat_hybrid
    full_prompt,  \* run_new_agent only: prompt with the model annotation
    pc,           \* position in main / open_cursor_chat_hybrid
    calls,        \* history of external invocations (and the pause), in order
    out,          \* lines printed so far
    success,      \* return value of open_cursor_chat_hybrid: "unset", "True", "False"
    exitCode,     \* process exit status, -1 while the process is running
    text,         \* escaping harness: the input string
    escaped,      \* escaping harness: the value returned
    epc,          \* escaping harness: "off", "call", "done"
    other         \* comparison harness: the finished run of the other script

vars == <<script, platform, installed, args, prompt, full_prompt, pc, calls, out,
          success, exitCode, text, escaped, epc, other>>

dispatchVars == <<script, platform, installed, args, prompt, full_prompt, pc, calls, out,
                  success, exitCode>>

escapeVars == <<text, escaped, epc>>

harnessVars == <<escapeVars, other>>

----------------------------------------------------------------------------
\* Bounds of the model

\* longest -p value enumerated in the dispatch specification
MaxPromptLen == 2

\* longest input of the escaping harness
MaxLen == 4

----------------------------------------------------------------------------
\* Text

BS == "\\"

DQ == "\""

\* characters the enumerated strings are built from
Chars == {BS, DQ, "a"}

\* Python's None, for values that are otherwise character sequences
None == <<"None">>

RECURSIVE StringsUpTo(_)
StringsUpTo(n) ==
    IF n = 0 THEN {<<>>}
    ELSE LET shorter == StringsUpTo(n - 1)
         IN  shorter \cup {Append(s, c) : s \in {t \in shorter : Len(t) = n - 1}, c \in Chars}

\* truth value of an Optional[str] in a Python condition
Truthy(x) == x # None /\ x # <<>>

\* str.replace(old, new) for a one-character old: every occurrence, left to right
RECURSIVE replace(_, _, _)
replace(s, old, new) ==
    IF s = <<>> THEN <<>>
    ELSE (IF Head(s) = old THEN new ELSE <<Head(s)>>) \o replace(Tail(s), old, new)

\* a plausible slip: quotes escaped first, then every backslash doubled
escape_quotes_first(t) ==
    replace(replace(t, DQ, <<BS, DQ>>), BS, <<BS, BS>>)

\* open_cursor_chat.py: text.replace('\\', '\\\\').replace('"', '\\"')
escape_applescript_string(t) ==
    replace(replace(t, BS, <<BS, BS>>), DQ, <<BS, DQ>>)

\* run_new_agent.py: the same two replacements
rna_escape_applescript_string(t) ==
    replace(replace(t, BS, <<BS, BS>>), DQ, <<BS, DQ>>)

----------------------------------------------------------------------------
\* The environment: what running an external command can produce

OCC == "open_cursor_chat.py"

RNA == "run_new_agent.py"

Scripts == {OCC, RNA}

Platforms == {"darwin", "linux", "win32"}

\* subprocess.run returned a CompletedProcess
Returned(rc, err) == [exc |-> "none", returncode |-> rc, stderr |-> err]

\* subprocess.run raised
Raised(e) == [exc |-> e]

ReturnCodes == {0, 1}

\* the two substrings the scripts look for in osascript's error output
PermissionMarkers == {"not allowed to send keystrokes", "1002"}

Commands == {"cursor-agent", "osascript", "cursor"}

\* cursor-agent: capture_output, timeout=5; an absent command raises FileNotFoundError
AgentOutcomes ==
    IF "cursor-agent" \in installed
      THEN {Returned(rc, {}) : rc \in ReturnCodes}
               \cup {Raised(e) : e \in {"TimeoutExpired", "OSError"}}
      ELSE {Raised("FileNotFoundError")}

\* osascript: capture_output, text=True, no timeout; the error output matters
\* only to a non-zero exit
OsascriptOutcomes ==
    IF "osascript" \in installed
      THEN {Returned(0, {})}
               \cup {Returned(1, err) : err \in SUBSET PermissionMarkers}
               \cup {Raised("OSError")}
      ELSE {Raised("FileNotFoundError")}

\* cursor: no timeout, output not captured
CursorOutcomes ==
    IF "cursor" \in installed
      THEN {Returned(rc, {}) : rc \in ReturnCodes}
               \cup {Raised("PermissionError")}
      ELSE {Raised("FileNotFoundError")}

Call(tool, a, m, o) == [tool |-> tool, arg |-> a, model |-> m, outcome |-> o]

Msg(m, a) == [msg |-> m, arg |-> a]

\* Path.cwd()
cwd == <<"/", "c", "w", "d">>

Workspaces == {None, <<"/", "w", "s">>}

Models == {None, <<>>, <<"m">>}

Agents == {None, <<"s", "w", "e">>, <<"q", "a">>, <<"p", "m">>, <<"d", "o", "c", "s">>}

Prompts == {None} \cup StringsUpTo(MaxPromptLen)

\* the permission guidance printed when keystrokes are refused
PermissionGuidance ==
    << Msg("macOS Accessibility Permission Required", None),
       Msg("To enable keystroke automation:", None),
       Msg("1. Open System Settings -> Privacy & Security -> Accessibility", None),
       Msg("2. Enable 'Terminal' or 'Python' (whichever you're using)", None),
       Msg("3. Or run this script from Terminal.app (it may already have permissions)", None),
       Msg("Alternatively, Cursor is now activated - press Cmd+T manually", None) >>

NotFoundGuidance ==
    << Msg("Cursor CLI not found.", None),
       Msg("Install it with: curl https://cursor.com/install -fsS | bash", None),
       Msg("Or use AppleScript method (macOS only)", None) >>

----------------------------------------------------------------------------
\* open_cursor_chat.py

\* "if prompt:" guards the cursor-agent attempt
occ_agent_entered(p) == Truthy(p)

\* slip: the exit status test inverted
occ_agent_succeeded_inverted(o) == o.exc = "none" /\ o.returncode # 0

\* "if result.returncode == 0" after cursor-agent
occ_agent_succeeded(o) == o.exc = "none" /\ o.returncode = 0

\* slip: the platform test left out
occ_fallback_entry_any_platform == "activate"

\* "if sys.platform == 'darwin'": where the dispatch goes after the agent step
occ_fallback_entry == IF platform = "darwin" THEN "activate" ELSE "launch"

\* slip: only a negative status (death by signal) counts as failure
occ_activate_failed_negative_only(o) == o.returncode < 0

\* "if result.returncode != 0" after activation
occ_activate_failed(o) == o.returncode # 0

\* slip: the error number is not looked for
occ_is_permission_error_text_only(err) == "not allowed to send keystrokes" \in err

\* the permission test on the keystroke command's error output
occ_is_permission_error(err) ==
    "not allowed to send keystrokes" \in err \/ "1002" \in err

\* workspace or Path.cwd()
occ_workspace_path(w) == IF w # None THEN w ELSE cwd

\* main up to the first external command of open_cursor_chat_hybrid
occ_main ==
    /\ script = OCC
    /\ pc = "main"
    /\ prompt' = args.prompt
    /\ pc' = IF occ_agent_entered(args.prompt) THEN "agent" ELSE occ_fallback_entry
    /\ UNCHANGED <<script, platform, installed, args, full_prompt, calls, out, success, exitCode>>
    /\ UNCHANGED harnessVars

\* slip: a timeout of cursor-agent is reported and ends the dispatch
occ_cursor_agent_timeout_fatal ==
    /\ script = OCC
    /\ pc = "agent"
    /\ \E o \in AgentOutcomes :
         /\ calls' = Append(calls, Call("cursor-agent", prompt, None, o))
         /\ IF occ_agent_succeeded(o)
              THEN /\ out' = Append(out, Msg("Opened chat with cursor-agent CLI", None))
                   /\ success' = "True"
                   /\ pc' = "returned"
              ELSE IF o.exc = "TimeoutExpired"
                     THEN /\ out' = Append(out, Msg("cursor-agent timed out", None))
                          /\ success' = "False"
                          /\ pc' = "returned"
                     ELSE /\ out' = out
                          /\ success' = success
                          /\ pc' = occ_fallback_entry
    /\ UNCHANGED <<script, platform, installed, args, prompt, full_prompt, exitCode>>
    /\ UNCHANGED harnessVars

\* subprocess.run(['cursor-agent', '-p', prompt], timeout=5)
occ_cursor_agent ==
    /\ script = OCC
    /\ pc = "agent"
    /\ \E o \in AgentOutcomes :
         /\ calls' = Append(calls, Call("cursor-agent", prompt, None, o))
         /\ IF occ_agent_succeeded(o)
              THEN /\ out' = Append(out, Msg("Opened chat with cursor-agent CLI", None))
                   /\ success' = "True"
                   /\ pc' = "returned"
              ELSE /\ out' = out
                   /\ success' = success
                   /\ pc' = occ_fallback_entry
    /\ UNCHANGED <<script, platform, installed, args, prompt, full_prompt, exitCode>>
    /\ UNCHANGED harnessVars

\* subprocess.run(['osascript', '-e', activate_script])
occ_activate ==
    /\ script = OCC
    /\ pc = "activate"
    /\ \E o \in OsascriptOutcomes :
         /\ calls' = Append(calls, Call("osascript activate", None, None, o))
         /\ IF o.exc # "none"
              THEN /\ out' = Append(out, Msg("AppleScript method failed:", None))
                   /\ success' = success
                   /\ pc' = "launch"
              ELSE IF occ_activate_failed(o)
                     THEN /\ out' = Append(out, Msg("Could not activate Cursor. Is it installed?", None))
                          /\ success' = "False"
                          /\ pc' = "returned"
                     ELSE /\ out' = out
                          /\ success' = success
                          /\ pc' = "sleep"
    /\ UNCHANGED <<script, platform, installed, args, prompt, full_prompt, exitCode>>
    /\ UNCHANGED harnessVars

\* time.sleep(0.5)
occ_sleep ==
    /\ script = OCC
    /\ pc = "sleep"
    /\ calls' = Append(calls, Call("time.sleep", None, None, Returned(0, {})))
    /\ pc' = "chat"
    /\ UNCHANGED <<script, platform, installed, args, prompt, full_prompt, out, success, exitCode>>
    /\ UNCHANGED harnessVars

\* the text typed by chat_script: the escaped prompt, or nothing
occ_chat_script(p) == IF Truthy(p) THEN escape_applescript_string(p) ELSE None

\* subprocess.run(['osascript', '-e', chat_script]) and the handling of its result
occ_chat ==
    /\ script = OCC
    /\ pc = "chat"
    /\ \E o \in OsascriptOutcomes :
         /\ calls' = Append(calls, Call("osascript chat", occ_chat_script(prompt), None, o))
         /\ IF o.exc # "none"
              THEN /\ out' = Append(out, Msg("AppleScript method failed:", None))
                   /\ success' = success
                   /\ pc' = "launch"
              ELSE IF o.returncode = 0
                     THEN /\ out' = out \o <<Msg("Opened new chat in Cursor (using AppleScript)", None)>>
                                        \o (IF Truthy(prompt) THEN <<Msg("Prompt:", prompt)>> ELSE <<>>)
                          /\ success' = "True"
                          /\ pc' = "returned"
                     ELSE IF occ_is_permission_error(o.stderr)
                            THEN /\ out' = out \o PermissionGuidance
                                               \o (IF Truthy(prompt)
                                                     THEN <<Msg("Then paste this prompt:", prompt)>>
                                                     ELSE <<>>)
                                 /\ success' = "True"
                                 /\ pc' = "returned"
                            ELSE /\ out' = Append(out, Msg("AppleScript method failed:", None))
                                 /\ success' = success
                                 /\ pc' = "launch"
    /\ UNCHANGED <<script, platform, installed, args, prompt, full_prompt, exitCode>>
    /\ UNCHANGED harnessVars

\* slip: a missing launcher is swallowed like the other failures
occ_launch_started_or_missing(o) == o.exc \in {"none", "FileNotFoundError"}

\* the launcher counts as started whenever subprocess.run returned
occ_launch_started(o) == o.exc = "none"

\* subprocess.run(['cursor', str(workspace_path)]); only FileNotFoundError is caught
occ_launch ==
    /\ script = OCC
    /\ pc = "launch"
    /\ \E o \in CursorOutcomes :
         /\ calls' = Append(calls, Call("cursor", occ_workspace_path(args.workspace), None, o))
         /\ IF occ_launch_started(o)
              THEN /\ out' = out \o <<Msg("Opened Cursor", None)>>
                                 \o (IF ~Truthy(prompt)
                                       THEN <<Msg("Press Cmd+T to open a new chat", None)>>
                                       ELSE <<Msg("Press Cmd+T and paste:", prompt)>>)
                   /\ success' = "True"
                   /\ pc' = "returned"
                   /\ exitCode' = exitCode
              ELSE IF o.exc = "FileNotFoundError"
                     THEN /\ out' = out \o NotFoundGuidance
                          /\ success' = "False"
                          /\ pc' = "returned"
                          /\ exitCode' = exitCode
                     ELSE \* the exception leaves main: traceback, exit status 1
                          /\ out' = Append(out, Msg("Traceback (most recent call last):", None))
                          /\ success' = success
                          /\ pc' = "exited"
                          /\ exitCode' = 1
    /\ UNCHANGED <<script, platform, installed, args, prompt, full_prompt>>
    /\ UNCHANGED harnessVars

\* slip: the result of the dispatch is dropped
occ_sys_exit_always_zero ==
    /\ script = OCC
    /\ pc = "returned"
    /\ exitCode' = 0
    /\ pc' = "exited"
    /\ UNCHANGED <<script, platform, installed, args, prompt, full_prompt, calls, out, success>>
    /\ UNCHANGED harnessVars

\* sys.exit(0 if success else 1)
occ_sys_exit ==
    /\ script = OCC
    /\ pc = "returned"
    /\ exitCode' = IF success = "True" THEN 0 ELSE 1
    /\ pc' = "exited"
    /\ UNCHANGED <<script, platform, installed, args, prompt, full_prompt, calls, out, success>>
    /\ UNCHANGED harnessVars

----------------------------------------------------------------------------
\* run_new_agent.py

SWE_PROMPT == <<"r", "u", "n", " ", "s", "w", "e", " ", "a", "g", "e", "n", "t">>

QA_PROMPT == <<"U", "s", "e", " ", "@", ".", "c", "u", "r", "s", "o", "r", "/", "r", "u", "l", "e", "s", "/", "q", "a", "-", "a", "g", "e", "n", "t", ".", "m", "d", "c">>

PM_PROMPT == <<"U", "s", "e", " ", "@", ".", "c", "u", "r", "s", "o", "r", "/", "r", "u", "l", "e", "s", "/", "p", "m", "-", "a", "g", "e", "n", "t", ".", "m", "d", "c">>

DOCS_PROMPT == <<"r", "u", "n", " ", "d", "o", "c", "s", " ", "a", "g", "e", "n", "t">>

\* slip: the docs role given a rule file like qa and pm
rna_agent_prompt_docs_rule(a) ==
    IF a = <<"s", "w", "e">> THEN SWE_PROMPT
    ELSE IF a = <<"q", "a">> THEN QA_PROMPT
    ELSE IF a = <<"p", "m">> THEN PM_PROMPT
    ELSE IF a = <<"d", "o", "c", "s">>
           THEN <<"U", "s", "e", " ", "@", ".", "c", "u", "r", "s", "o", "r", "/", "r", "u", "l", "e", "s", "/", "d", "o", "c", "s", "-", "a", "g", "e", "n", "t", ".", "m", "d", "c">>
    ELSE None

\* slip: the qa and pm branches exchanged
rna_agent_prompt_swapped(a) ==
    IF a = <<"s", "w", "e">> THEN SWE_PROMPT
    ELSE IF a = <<"q", "a">> THEN PM_PROMPT
    ELSE IF a = <<"p", "m">> THEN QA_PROMPT
    ELSE IF a = <<"d", "o", "c", "s">> THEN DOCS_PROMPT
    ELSE None

\* the if/elif chain over args.agent
rna_agent_prompt(a) ==
    IF a = <<"s", "w", "e">> THEN SWE_PROMPT
    ELSE IF a = <<"q", "a">> THEN QA_PROMPT
    ELSE IF a = <<"p", "m">> THEN PM_PROMPT
    ELSE IF a = <<"d", "o", "c", "s">> THEN DOCS_PROMPT
    ELSE None

\* prompt = args.prompt; "if not prompt and args.agent:" replaces it by the role's string
rna_resolve_prompt(p, a) ==
    IF ~Truthy(p) /\ Truthy(a) THEN rna_agent_prompt(a) ELSE p

\* slip: the blank before the annotation left out
rna_full_prompt_no_blank(p, m) ==
    IF Truthy(m) /\ Truthy(p)
      THEN p \o <<"(", "m", "o", "d", "e", "l", ":", " ">> \o m \o <<")">>
      ELSE IF Truthy(m)
             THEN <<"(", "m", "o", "d", "e", "l", ":", " ">> \o m \o <<")">>
             ELSE p

\* full_prompt: the prompt with the model annotation
rna_full_prompt(p, m) ==
    IF Truthy(m) /\ Truthy(p)
      THEN p \o <<" ", "(", "m", "o", "d", "e", "l", ":", " ">> \o m \o <<")">>
      ELSE IF Truthy(m)
             THEN <<"(", "m", "o", "d", "e", "l", ":", " ">> \o m \o <<")">>
             ELSE p

\* slip: "if full_prompt is not None:"
rna_agent_entered_not_none(fp) == fp # None

\* "if full_prompt:" guards the cursor-agent attempt
rna_agent_entered(fp) == Truthy(fp)

\* "if model: cmd.extend(['-m', model])"
rna_cmd_model(m) == IF Truthy(m) THEN m ELSE None

\* "if result.returncode == 0" after cursor-agent
rna_agent_succeeded(o) == o.exc = "none" /\ o.returncode = 0

\* "if sys.platform == 'darwin'": where the dispatch goes after the agent step
rna_fallback_entry == IF platform = "darwin" THEN "activate" ELSE "launch"

\* slip: only a negative status (death by signal) counts as failure
rna_activate_failed_negative_only(o) == o.returncode < 0

\* "if result.returncode != 0" after activation
rna_activate_failed(o) == o.returncode # 0

\* slip: '... in result.stderr or "1002"', which is always true
rna_is_permission_error_always(err) ==
    "not allowed to send keystrokes" \in err \/ TRUE

\* the permission test on the keystroke command's error output
rna_is_permission_error(err) ==
    "not allowed to send keystrokes" \in err \/ "1002" \in err

\* workspace or Path.cwd()
rna_workspace_path(w) == IF w # None THEN w ELSE cwd

\* main up to the first external command of open_cursor_chat_hybrid
rna_main ==
    /\ script = RNA
    /\ pc = "main"
    /\ prompt' = rna_resolve_prompt(args.prompt, args.agent)
    /\ full_prompt' = rna_full_prompt(prompt', args.model)
    /\ pc' = IF rna_agent_entered(full_prompt') THEN "agent" ELSE rna_fallback_entry
    /\ UNCHANGED <<script, platform, installed, args, calls, out, success, exitCode>>
    /\ UNCHANGED harnessVars

\* subprocess.run(cmd, timeout=5), cmd = ['cursor-agent', '-p', full_prompt] (+ ['-m', model])
rna_cursor_agent ==
    /\ script = RNA
    /\ pc = "agent"
    /\ \E o \in AgentOutcomes :
         /\ calls' = Append(calls, Call("cursor-agent", full_prompt, rna_cmd_model(args.model), o))
         /\ IF rna_agent_succeeded(o)
              THEN /\ out' = Append(out, Msg("Opened chat with cursor-agent CLI", None))
                   /\ success' = "True"
                   /\ pc' = "returned"
              ELSE /\ out' = out
                   /\ success' = success
                   /\ pc' = rna_fallback_entry
    /\ UNCHANGED <<script, platform, installed, args, prompt, full_prompt, exitCode>>
    /\ UNCHANGED harnessVars

\* subprocess.run(['osascript', '-e', activate_script])
rna_activate ==
    /\ script = RNA
    /\ pc = "activate"
    /\ \E o \in OsascriptOutcomes :
         /\ calls' = Append(calls, Call("osascript activate", None, None, o))
         /\ IF o.exc # "none"
              THEN /\ out' = Append(out, Msg("AppleScript method failed:", None))
                   /\ success' = success
                   /\ pc' = "launch"
              ELSE IF rna_activate_failed(o)
                     THEN /\ out' = Append(out, Msg("Could not activate Cursor. Is it installed?", None))
                          /\ success' = "False"
                          /\ pc' = "returned"
                     ELSE /\ out' = out
                          /\ success' = success
                          /\ pc' = "sleep"
    /\ UNCHANGED <<script, platform, installed, args, prompt, full_prompt, exitCode>>
    /\ UNCHANGED harnessVars

\* time.sleep(0.5)
rna_sleep ==
    /\ script = RNA
    /\ pc = "sleep"
    /\ calls' = Append(calls, Call("time.sleep", None, None, Returned(0, {})))
    /\ pc' = "chat"
    /\ UNCHANGED <<script, platform, installed, args, prompt, full_prompt, out, success, exitCode>>
    /\ UNCHANGED harnessVars

\* slip: the prompt pasted into the script without escaping
rna_chat_script_unescaped(fp) == IF Truthy(fp) THEN fp ELSE None

\* the text typed by chat_script: the escaped full prompt, or nothing
rna_chat_script(fp) == IF Truthy(fp) THEN rna_escape_applescript_string(fp) ELSE None

\* slip: a raised error in the AppleScript block ends the dispatch like a
\* refused activation
rna_chat_raise_fatal ==
    /\ script = RNA
    /\ pc = "chat"
    /\ \E o \in OsascriptOutcomes :
         /\ calls' = Append(calls, Call("osascript chat", rna_chat_script(full_prompt), None, o))
         /\ IF o.exc # "none"
              THEN /\ out' = Append(out, Msg("AppleScript method failed:", None))
                   /\ success' = "False"
                   /\ pc' = "returned"
              ELSE IF o.returncode = 0
                     THEN /\ out' = out \o <<Msg("Opened new chat in Cursor (using AppleScript)", None)>>
                                        \o (IF Truthy(full_prompt)
                                              THEN <<Msg("Prompt:", full_prompt)>>
                                              ELSE <<>>)
                          /\ success' = "True"
                          /\ pc' = "returned"
                     ELSE IF rna_is_permission_error(o.stderr)
                            THEN /\ out' = out \o PermissionGuidance
                                               \o (IF Truthy(full_prompt)
                                                     THEN <<Msg("Then paste this prompt:", full_prompt)>>
                                                     ELSE <<>>)
                                 /\ success' = "True"
                                 /\ pc' = "returned"
                            ELSE /\ out' = Append(out, Msg("AppleScript method failed:", None))
                                 /\ success' = success
                                 /\ pc' = "launch"
    /\ UNCHANGED <<script, platform, installed, args, prompt, full_prompt, exitCode>>
    /\ UNCHANGED harnessVars

\* subprocess.run(['osascript', '-e', chat_script]) and the handling of its result
rna_chat ==
    /\ script = RNA
    /\ pc = "chat"
    /\ \E o \in OsascriptOutcomes :
         /\ calls' = Append(calls, Call("osascript chat", rna_chat_script(full_prompt), None, o))
         /\ IF o.exc # "none"
              THEN /\ out' = Append(out, Msg("AppleScript method failed:", None))
                   /\ success' = success
                   /\ pc' = "launch"
              ELSE IF o.returncode = 0
                     THEN /\ out' = out \o <<Msg("Opened new chat in Cursor (using AppleScript)", None)>>
                                        \o (IF Truthy(full_prompt)
                                              THEN <<Msg("Prompt:", full_prompt)>>
                                              ELSE <<>>)
                          /\ success' = "True"
                          /\ pc' = "returned"
                     ELSE IF rna_is_permission_error(o.stderr)
                            THEN /\ out' = out \o PermissionGuidance
                                               \o (IF Truthy(full_prompt)
                                                     THEN <<Msg("Then paste this prompt:", full_prompt)>>
                                                     ELSE <<>>)
                                 /\ success' = "True"
                                 /\ pc' = "returned"
                            ELSE /\ out' = Append(out, Msg("AppleScript method failed:", None))
                                 /\ success' = success
                                 /\ pc' = "launch"
    /\ UNCHANGED <<script, platform, installed, args, prompt, full_prompt, exitCode>>
    /\ UNCHANGED harnessVars

\* slip: check=True, so a launcher that exits non-zero raises
rna_launch_started_checked(o) == o.exc = "none" /\ o.returncode = 0

\* the launcher counts as started whenever subprocess.run returned
rna_launch_started(o) == o.exc = "none"

\* subprocess.run(['cursor', str(workspace_path)]); only FileNotFoundError is caught
rna_launch ==
    /\ script = RNA
    /\ pc = "launch"
    /\ \E o \in CursorOutcomes :
         /\ calls' = Append(calls, Call("cursor", rna_workspace_path(args.workspace), None, o))
         /\ IF rna_launch_started(o)
              THEN /\ out' = out \o <<Msg("Opened Cursor", None)>>
                                 \o (IF ~Truthy(full_prompt)
                                       THEN <<Msg("Press Cmd+T to open a new chat", None)>>
                                       ELSE <<Msg("Press Cmd+T and paste:", full_prompt)>>)
                   /\ success' = "True"
                   /\ pc' = "returned"
                   /\ exitCode' = exitCode
              ELSE IF o.exc = "FileNotFoundError"
                     THEN /\ out' = out \o NotFoundGuidance
                          /\ success' = "False"
                          /\ pc' = "returned"
                          /\ exitCode' = exitCode
                     ELSE \* the exception leaves main: traceback, exit status 1
                          /\ out' = Append(out, Msg("Traceback (most recent call last):", None))
                          /\ success' = success
                          /\ pc' = "exited"
                          /\ exitCode' = 1
    /\ UNCHANGED <<script, platform, installed, args, prompt, full_prompt>>
    /\ UNCHANGED harnessVars

\* slip: the exit statuses exchanged
rna_sys_exit_inverted ==
    /\ script = RNA
    /\ pc = "returned"
    /\ exitCode' = IF success = "True" THEN 1 ELSE 0
    /\ pc' = "exited"
    /\ UNCHANGED <<script, platform, installed, args, prompt, full_prompt, calls, out, success>>
    /\ UNCHANGED harnessVars

\* sys.exit(0 if success else 1)
rna_sys_exit ==
    /\ script = RNA
    /\ pc = "returned"
    /\ exitCode' = IF success = "True" THEN 0 ELSE 1
    /\ pc' = "exited"
    /\ UNCHANGED <<script, platform, installed, args, prompt, full_prompt, calls, out, success>>
    /\ UNCHANGED harnessVars

----------------------------------------------------------------------------
\* Specification of the dispatch

\* argparse namespaces: open_cursor_chat.py has no -a and no -m
ArgSpace(s) ==
    IF s = OCC
      THEN [prompt : Prompts, agent : {None}, model : {None}, workspace : Workspaces]
      ELSE [prompt : Prompts, agent : Agents, model : Models, workspace : Workspaces]

\* slip: cursor-agent run without its timeout
UntimedStepsAndAgent == {"agent", "activate", "chat", "launch"}

\* the positions whose subprocess.run has no timeout argument
UntimedSteps == {"activate", "chat", "launch"}

\* the command run at a position, and the name it is recorded under
CommandAt(p) ==
    CASE p = "agent" -> "cursor-agent"
      [] p \in {"activate", "chat"} -> "osascript"
      [] p = "launch" -> "cursor"

ToolAt(p) ==
    CASE p = "agent" -> "cursor-agent"
      [] p = "activate" -> "osascript activate"
      [] p = "chat" -> "osascript chat"
      [] p = "launch" -> "cursor"

\* a command that exists and is run without a timeout blocks forever
never_returns ==
    /\ pc \in UntimedSteps
    /\ CommandAt(pc) \in installed
    /\ calls' = Append(calls, Call(ToolAt(pc), None, None, [exc |-> "blocked"]))
    /\ pc' = "hung"
    /\ UNCHANGED <<script, platform, installed, args, prompt, full_prompt, out, success, exitCode>>
    /\ UNCHANGED harnessVars

Init ==
    /\ script \in Scripts
    /\ platform \in Platforms
    /\ installed \in SUBSET Commands
    /\ args \in ArgSpace(script)
    /\ prompt = None
    /\ full_prompt = None
    /\ pc = "main"
    /\ calls = <<>>
    /\ out = <<>>
    /\ success = "unset"
    /\ exitCode = -1
    /\ text = <<>>
    /\ escaped = <<>>
    /\ epc = "off"
    /\ other = [done |-> FALSE]

Next ==
    \/ occ_main
    \/ occ_cursor_agent
    \/ occ_activate
    \/ occ_sleep
    \/ occ_chat
    \/ occ_launch
    \/ occ_sys_exit
    \/ rna_main
    \/ rna_cursor_agent
    \/ rna_activate
    \/ rna_sleep
    \/ rna_chat
    \/ rna_launch
    \/ rna_sys_exit

Spec == Init /\ [][Next]_vars

----------------------------------------------------------------------------
\* Specification of the dispatch with blocking commands

\* the dispatch where a command without a timeout may never return; the
\* interpreter itself always takes its next step
NextHang ==
    \/ Next
    \/ never_returns

\* blocking does not depend on the prompt's text: one prompt of each kind
\* (absent, empty, non-empty) is enough here
InitHang ==
    /\ Init
    /\ args.prompt \in {None, <<>>, <<"a">>}

SpecHang == InitHang /\ [][NextHang]_vars /\ WF_vars(NextHang)

----------------------------------------------------------------------------
\* Specification of both entry points on one host: open_cursor_chat.py runs
\* to its exit, then run_new_agent.py is started with the same -p and -w (it
\* has no -a and no -m here), on the same platform and host

\* python3 run_new_agent.py ..., after open_cursor_chat.py has exited
run_other_script ==
    /\ script = OCC
    /\ pc = "exited"
    /\ ~other.done
    /\ other' = [done |-> TRUE, calls |-> calls, exitCode |-> exitCode]
    /\ script' = RNA
    /\ pc' = "main"
    /\ prompt' = None
    /\ full_prompt' = None
    /\ calls' = <<>>
    /\ out' = <<>>
    /\ success' = "unset"
    /\ exitCode' = -1
    /\ UNCHANGED <<platform, installed, args>>
    /\ UNCHANGED escapeVars

InitPair ==
    /\ Init
    /\ script = OCC

NextPair ==
    \/ Next
    \/ run_other_script

SpecPair == InitPair /\ [][NextPair]_vars

----------------------------------------------------------------------------
\* Specification of the escaping function on its own: every string up to
\* MaxLen over Chars is handed to escape_applescript_string of either script

\* escaped_prompt = escape_applescript_string(prompt) in open_cursor_chat.py
occ_escape_call ==
    /\ script = OCC
    /\ epc = "call"
    /\ escaped' = escape_applescript_string(text)
    /\ epc' = "done"
    /\ UNCHANGED <<text, other>>
    /\ UNCHANGED dispatchVars

\* escaped_prompt = escape_applescript_string(full_prompt) in run_new_agent.py
rna_escape_call ==
    /\ script = RNA
    /\ epc = "call"
    /\ escaped' = rna_escape_applescript_string(text)
    /\ epc' = "done"
    /\ UNCHANGED <<text, other>>
    /\ UNCHANGED dispatchVars

InitEscape ==
    /\ script \in Scripts
    /\ platform = "darwin"
    /\ installed = Commands
    /\ args = [prompt |-> None, agent |-> None, model |-> None, workspace |-> None]
    /\ prompt = None
    /\ full_prompt = None
    /\ pc = "off"
    /\ calls = <<>>
    /\ out = <<>>
    /\ success = "unset"
    /\ exitCode = -1
    /\ text \in StringsUpTo(MaxLen)
    /\ escaped = None
    /\ epc = "call"
    /\ other = [done |-> FALSE]

NextEscape ==
    \/ occ_escape_call
    \/ rna_escape_call

SpecEscape == InitEscape /\ [][NextEscape]_vars

----------------------------------------------------------------------------
\* Vocabulary of the properties

\* the prompt the delivery mechanisms work with
EffectivePrompt == IF script = OCC THEN prompt ELSE full_prompt

Terminated == pc \in {"returned", "exited"}

Exited == pc = "exited"

Invoked(tool) == \E i \in DOMAIN calls : calls[i].tool = tool

IsLast(i) == i = Len(calls)

ExitedWith(c, rc) == c.outcome.exc = "none" /\ c.outcome.returncode = rc

ExitedNonZero(c) == c.outcome.exc = "none" /\ c.outcome.returncode # 0

RaisedIn(c) == c.outcome.exc # "none"

AgentOk(c) == c.tool = "cursor-agent" /\ ExitedWith(c, 0)

AgentFailed(c) == c.tool = "cursor-agent" /\ ~ExitedWith(c, 0)

ActivateRefused(c) == c.tool = "osascript activate" /\ ExitedNonZero(c)

ChatOk(c) == c.tool = "osascript chat" /\ ExitedWith(c, 0)

ChatPermissionDenied(c) ==
    /\ c.tool = "osascript chat"
    /\ ExitedNonZero(c)
    /\ c.outcome.stderr \cap PermissionMarkers # {}

ChatFailedOtherwise(c) ==
    /\ c.tool = "osascript chat"
    /\ \/ RaisedIn(c)
       \/ ExitedNonZero(c) /\ c.outcome.stderr \cap PermissionMarkers = {}

LaunchStarted(c) == c.tool = "cursor" /\ c.outcome.exc = "none"

LaunchNotFound(c) == c.tool = "cursor" /\ c.outcome.exc = "FileNotFoundError"

LaunchCrashed(c) == c.tool = "cursor" /\ c.outcome.exc \notin {"none", "FileNotFoundError"}

Some(P(_)) == \E i \in DOMAIN calls : P(calls[i])

Printed(m) == \E i \in DOMAIN out : out[i].msg = m

\* the control position at which a tool is about to be run
PcOf(tool) ==
    CASE tool = "cursor-agent" -> "agent"
      [] tool = "osascript activate" -> "activate"
      [] tool = "time.sleep" -> "sleep"
      [] tool = "osascript chat" -> "chat"
      [] tool = "cursor" -> "launch"

\* the invocation after the i-th is of tool, or is about to be
NextIs(i, tool) ==
    IF i < Len(calls) THEN calls[i + 1].tool = tool ELSE pc = PcOf(tool)

Rank(tool) ==
    CASE tool = "cursor-agent" -> 1
      [] tool = "osascript activate" -> 2
      [] tool = "time.sleep" -> 3
      [] tool = "osascript chat" -> 4
      [] tool = "cursor" -> 5

\* the replacement the specification prescribes for one character
EscapeChar(c) ==
    IF c = BS THEN <<BS, BS>> ELSE IF c = DQ THEN <<BS, DQ>> ELSE <<c>>

RECURSIVE EscapeCharwise(_)
EscapeCharwise(s) ==
    IF s = <<>> THEN <<>> ELSE EscapeChar(Head(s)) \o EscapeCharwise(Tail(s))

\* number of consecutive backslashes that end right before position i of s
RECURSIVE BackslashRun(_, _)
BackslashRun(s, i) ==
    IF i > 1 /\ s[i - 1] = BS THEN 1 + BackslashRun(s, i - 1) ELSE 0

----------------------------------------------------------------------------
\* Properties

\* C1: whenever the cursor-agent invocation returns exit status zero, the
\* dispatch returns success at once: that invocation is the last one of the
\* run (no osascript, no pause, no cursor launch follows it).
C1_AgentSuccessEndsDispatch ==
    \A i \in DOMAIN calls :
        AgentOk(calls[i]) => IsLast(i) /\ Terminated /\ success = "True"

\* run_new_agent.py has exited after cursor-agent took the prompt
C1_Witness ==
    /\ Exited
    /\ script = RNA
    /\ exitCode = 0
    /\ Len(calls) = 1
    /\ AgentOk(calls[1])

\* C2 as stated: on any failure of a mechanism the next mechanism (cursor-agent,
\* then keystroke simulation where the platform has it, then launch) is
\* attempted, and the dispatch ends only on the first success of a mechanism
\* or after the last-resort launch has been attempted.
C2_AlwaysAdvances ==
    /\ \A i \in DOMAIN calls :
         /\ AgentFailed(calls[i]) =>
                NextIs(i, IF platform = "darwin" THEN "osascript activate" ELSE "cursor")
         /\ (calls[i].tool = "osascript activate" /\ ~ExitedWith(calls[i], 0)) =>
                NextIs(i, "cursor")
         /\ (calls[i].tool = "osascript chat" /\ ~ExitedWith(calls[i], 0)) =>
                NextIs(i, "cursor")
    /\ Terminated => Some(AgentOk) \/ Some(ChatOk) \/ Invoked("cursor")

\* C2 amended: a failed mechanism is followed by the next one, except that an
\* activation command that exits non-zero ends the dispatch with failure and a
\* keystroke command refused for lack of permission ends it with success; the
\* dispatch ends only on the first success, on one of these two early
\* returns, or after the last-resort launch has been attempted.
C2_AdvancesExceptEarlyReturns ==
    /\ \A i \in DOMAIN calls :
         /\ AgentFailed(calls[i]) =>
                NextIs(i, IF platform = "darwin" THEN "osascript activate" ELSE "cursor")
         /\ (calls[i].tool = "osascript activate" /\ RaisedIn(calls[i])) =>
                NextIs(i, "cursor")
         /\ ActivateRefused(calls[i]) =>
                IsLast(i) /\ Terminated /\ success = "False"
         /\ ChatFailedOtherwise(calls[i]) => NextIs(i, "cursor")
         /\ ChatPermissionDenied(calls[i]) =>
                IsLast(i) /\ Terminated /\ success = "True"
    /\ Terminated =>
         \/ Some(AgentOk)
         \/ Some(ChatOk)
         \/ Some(ActivateRefused)
         \/ Some(ChatPermissionDenied)
         \/ Invoked("cursor")

\* all three mechanisms were tried in turn: cursor-agent failed, the keystroke
\* command failed without the permission text, the launcher was run
C2_Witness ==
    /\ Exited
    /\ Len(calls) = 5
    /\ AgentFailed(calls[1])
    /\ ChatFailedOtherwise(calls[4])
    /\ ExitedNonZero(calls[4])
    /\ LaunchStarted(calls[5])

\* C3 as stated: the dispatch returns failure, and the process exits with 1,
\* only in a run where the launch was attempted and the launcher command was
\* not found; every other run exits with 0.
C3_OnlyMissingLauncherFails ==
    /\ Terminated /\ success = "False" => Some(LaunchNotFound)
    /\ Exited => exitCode \in {0, 1} /\ (exitCode = 1 <=> Some(LaunchNotFound))

\* C3 amended: the dispatch returns failure exactly when the launch was
\* attempted and the launcher was not found, or the activation command exited
\* non-zero; the process exits with 1 exactly in those runs and in the runs
\* where starting the launcher raised another error (which is not caught);
\* every other run exits with 0.
C3_FailureCauses ==
    /\ Terminated =>
         /\ success = "False" <=> (Some(LaunchNotFound) \/ Some(ActivateRefused))
         /\ success = "unset" <=> Some(LaunchCrashed)
    /\ Exited =>
         /\ exitCode \in {0, 1}
         /\ exitCode = 1 <=>
                (Some(LaunchNotFound) \/ Some(ActivateRefused) \/ Some(LaunchCrashed))

\* on Linux the launcher was reached with no prompt and was not found
C3_Witness ==
    /\ Exited
    /\ platform = "linux"
    /\ exitCode = 1
    /\ Len(calls) = 1
    /\ LaunchNotFound(calls[1])

\* C4 as stated: when cursor-agent did not exit with zero, the keystroke
\* command did not exit with zero (permission error included) and the
\* launcher command is absent, the exit code is 1; the exit code is 0 only
\* when some delivery path succeeded.
C4_AllFailMeansExitOne ==
    Exited =>
        /\ (~Some(AgentOk) /\ ~Some(ChatOk) /\ "cursor" \notin installed) => exitCode = 1
        /\ exitCode = 0 => (Some(AgentOk) \/ Some(ChatOk) \/ Some(LaunchStarted))

\* C4 amended: the same, unless the keystroke command failed with the
\* permission error: that run exits with 0 although nothing was delivered.
C4_AllFailExceptPermission ==
    Exited =>
        /\ ( /\ ~Some(AgentOk)
             /\ ~Some(ChatOk)
             /\ ~Some(ChatPermissionDenied)
             /\ "cursor" \notin installed ) => exitCode = 1
        /\ exitCode = 0 =>
             \/ Some(AgentOk)
             \/ Some(ChatOk)
             \/ Some(ChatPermissionDenied)
             \/ Some(LaunchStarted)

\* macOS host with none of the three commands: all three were tried, exit 1
C4_Witness ==
    /\ Exited
    /\ platform = "darwin"
    /\ installed = {}
    /\ exitCode = 1
    /\ Len(calls) = 3
    /\ AgentFailed(calls[1])
    /\ LaunchNotFound(calls[3])

\* C5: when the activation command reports failure (it runs and exits with a
\* non-zero status), the dispatch returns failure immediately: no pause, no
\* keystroke simulation and no cursor launch follow, and the exit code is 1.
C5_ActivationFailureEndsDispatch ==
    \A i \in DOMAIN calls :
        ActivateRefused(calls[i]) =>
            /\ platform = "darwin"
            /\ IsLast(i)
            /\ Terminated
            /\ success = "False"
            /\ Exited => exitCode = 1

\* open_cursor_chat.py has exited after a refused activation
C5_Witness ==
    /\ Exited
    /\ script = OCC
    /\ exitCode = 1
    /\ calls # <<>>
    /\ ActivateRefused(calls[Len(calls)])
    /\ ~Invoked("cursor")

\* C6: when the keystroke command exits non-zero and its error output holds
\* one of the permission texts, the remediation guidance is printed, the
\* dispatch returns success (exit code 0) and the launcher is not run.
C6_PermissionErrorIsSuccess ==
    \A i \in DOMAIN calls :
        ChatPermissionDenied(calls[i]) =>
            /\ IsLast(i)
            /\ Terminated
            /\ success = "True"
            /\ Printed("macOS Accessibility Permission Required")
            /\ Printed("Alternatively, Cursor is now activated - press Cmd+T manually")
            /\ ~Invoked("cursor")
            /\ Exited => exitCode = 0

\* the error output held only the error number, and the process exited with 0
C6_Witness ==
    /\ Exited
    /\ exitCode = 0
    /\ calls # <<>>
    /\ ChatPermissionDenied(calls[Len(calls)])
    /\ calls[Len(calls)].outcome.stderr = {"1002"}

\* some non-empty prompt, role or model name was given on the command line
HasPromptSource == Truthy(args.prompt) \/ Truthy(args.agent) \/ Truthy(args.model)

\* C7: cursor-agent is invoked in a run iff a resolved prompt exists (a
\* non-empty string): with a prompt, a role or a model name it is the first
\* invocation and happens once; with none of them (an empty -p counts as
\* none) it is never invoked, the dispatch starts at activation or launch and
\* the keystroke script types nothing.
C7_AgentIffPrompt ==
    pc \notin {"main", "off"} =>
        /\ HasPromptSource <=> Truthy(EffectivePrompt)
        /\ HasPromptSource =>
             \/ calls = <<>> /\ pc = "agent"
             \/ /\ calls # <<>>
                /\ calls[1].tool = "cursor-agent"
                /\ calls[1].arg = EffectivePrompt
                /\ \A i \in DOMAIN calls : i > 1 => calls[i].tool # "cursor-agent"
        /\ ~HasPromptSource =>
             /\ ~Invoked("cursor-agent")
             /\ pc # "agent"
             /\ calls = <<>> => pc \in {"activate", "launch"}
             /\ \A i \in DOMAIN calls :
                    calls[i].tool = "osascript chat" => calls[i].arg = None

\* only a model name was given: cursor-agent was run first, with "(model: m)"
C7_Witness ==
    /\ Exited
    /\ script = RNA
    /\ args.prompt = None
    /\ args.agent = None
    /\ args.model = <<"m">>
    /\ Len(calls) > 1
    /\ calls[1].tool = "cursor-agent"
    /\ calls[1].arg = <<"(", "m", "o", "d", "e", "l", ":", " ", "m", ")">>

\* C8: off macOS no osascript invocation (activation or keystrokes) and no
\* pause ever happens, and once the cursor-agent step has failed or been
\* skipped the next invocation is the cursor launch.
C8_KeystrokesOnlyOnDarwin ==
    platform # "darwin" =>
        /\ ~Invoked("osascript activate")
        /\ ~Invoked("osascript chat")
        /\ ~Invoked("time.sleep")
        /\ pc \notin {"activate", "sleep", "chat"}
        /\ \A i \in DOMAIN calls : AgentFailed(calls[i]) => NextIs(i, "cursor")
        /\ (pc \notin {"main", "off"} /\ ~Truthy(EffectivePrompt)) =>
               \/ calls = <<>> /\ pc = "launch"
               \/ calls # <<>> /\ calls[1].tool = "cursor"

\* on Linux cursor-agent timed out and the launcher was run next
C8_Witness ==
    /\ Exited
    /\ platform = "linux"
    /\ Len(calls) = 2
    /\ AgentFailed(calls[1])
    /\ calls[1].outcome.exc = "TimeoutExpired"
    /\ calls[2].tool = "cursor"

\* C9: the invocations of a run come in the order cursor-agent, osascript
\* activate, (pause), osascript keystrokes, cursor, each at most once, and the
\* keystroke command is run only right after the pause that follows an
\* activation that exited with status zero.
C9_StrictOrderNoRetry ==
    /\ \A i, j \in DOMAIN calls :
           i < j => Rank(calls[i].tool) < Rank(calls[j].tool)
    /\ \A i \in DOMAIN calls :
           calls[i].tool = "osascript chat" =>
               /\ i >= 3
               /\ calls[i - 1].tool = "time.sleep"
               /\ calls[i - 2].tool = "osascript activate"
               /\ ExitedWith(calls[i - 2], 0)
    /\ pc = "chat" =>
           /\ Len(calls) >= 2
           /\ calls[Len(calls)].tool = "time.sleep"
           /\ calls[Len(calls) - 1].tool = "osascript activate"
           /\ ExitedWith(calls[Len(calls) - 1], 0)

\* open_cursor_chat.py ran all four commands, in order
C9_Witness ==
    /\ Exited
    /\ script = OCC
    /\ Len(calls) = 5
    /\ calls[1].tool = "cursor-agent"
    /\ calls[2].tool = "osascript activate"
    /\ calls[4].tool = "osascript chat"
    /\ calls[5].tool = "cursor"
    /\ RaisedIn(calls[4])

\* C10: for every input string, escape_applescript_string of either script
\* returns the character-by-character replacement (backslash -> two
\* backslashes, double-quote -> backslash + double-quote, anything else
\* unchanged), and every double-quote of the result is preceded by an odd
\* number of backslashes.
C10_EscapeIsCharwise ==
    epc = "done" =>
        /\ escaped = EscapeCharwise(text)
        /\ \A i \in DOMAIN escaped :
               escaped[i] = DQ => BackslashRun(escaped, i) % 2 = 1

\* an input with a backslash directly before a quote has been escaped
C10_Witness ==
    /\ epc = "done"
    /\ text = <<"a", BS, DQ>>
    /\ escaped = <<"a", BS, BS, BS, DQ>>

\* the run_new_agent.py run has resolved its prompt
RnaResolved == script = RNA /\ pc \notin {"main", "off"}

\* C11 as stated: whenever -p is supplied (any string, the empty one included)
\* the prompt handed to the dispatcher is the explicit prompt, whatever -a says.
C11_ExplicitPromptWins ==
    (RnaResolved /\ args.prompt # None) => prompt = args.prompt

Roles == Agents \ {None}

\* the string the specification fixes for each role
RoleString(a) ==
    CASE a = <<"s", "w", "e">> -> <<"r", "u", "n", " ", "s", "w", "e", " ", "a", "g", "e", "n", "t">>
      [] a = <<"q", "a">> -> <<"U", "s", "e", " ", "@", ".", "c", "u", "r", "s", "o", "r", "/", "r", "u", "l", "e", "s", "/", "q", "a", "-", "a", "g", "e", "n", "t", ".", "m", "d", "c">>
      [] a = <<"p", "m">> -> <<"U", "s", "e", " ", "@", ".", "c", "u", "r", "s", "o", "r", "/", "r", "u", "l", "e", "s", "/", "p", "m", "-", "a", "g", "e", "n", "t", ".", "m", "d", "c">>
      [] a = <<"d", "o", "c", "s">> -> <<"r", "u", "n", " ", "d", "o", "c", "s", " ", "a", "g", "e", "n", "t">>

\* C12: with a recognized role, no -p and no -m, the prompt handed to the
\* delivery mechanisms is the role's fixed string, the cursor-agent step is
\* entered with it, and the four strings are non-empty and pairwise distinct.
C12_RolePromptIsMapped ==
    /\ (RnaResolved /\ args.prompt = None /\ args.model = None /\ args.agent # None) =>
           /\ prompt = RoleString(args.agent)
           /\ full_prompt = RoleString(args.agent)
           /\ calls = <<>> => pc = "agent"
           /\ calls # <<>> =>
                  /\ calls[1].tool = "cursor-agent"
                  /\ calls[1].arg = RoleString(args.agent)
    /\ \A a \in Roles :
           /\ rna_agent_prompt(a) # <<>>
           /\ rna_agent_prompt(a) # None
           /\ \A b \in Roles : a # b => rna_agent_prompt(a) # rna_agent_prompt(b)

\* the pm role was run with no -p and no -m and cursor-agent got its string
C12_Witness ==
    /\ Exited
    /\ script = RNA
    /\ args.prompt = None
    /\ args.model = None
    /\ args.agent = <<"p", "m">>
    /\ calls # <<>>
    /\ calls[1].tool = "cursor-agent"
    /\ calls[1].arg = RoleString(<<"p", "m">>)

RulePrefix == <<"U", "s", "e", " ", "@", ".", "c", "u", "r", "s", "o", "r", "/", "r", "u", "l", "e", "s", "/">>

RuleSuffix == <<".", "m", "d", "c">>

\* s names a rule-configuration file under the fixed path
ReferencesRuleFile(s) ==
    /\ s # None
    /\ Len(s) > Len(RulePrefix) + Len(RuleSuffix)
    /\ SubSeq(s, 1, Len(RulePrefix)) = RulePrefix
    /\ SubSeq(s, Len(s) - Len(RuleSuffix) + 1, Len(s)) = RuleSuffix

\* s is the generic instruction "run <role> agent"
IsGenericInstruction(s, a) == s = <<"r", "u", "n", " ">> \o a \o <<" ", "a", "g", "e", "n", "t">>

\* C13 as stated: of the four roles exactly one maps to a generic instruction
\* and the other three map to a string naming a rule-configuration file.
C13_OneGenericThreeRuleFiles ==
    RnaResolved =>
        /\ Cardinality({a \in Roles : ReferencesRuleFile(rna_agent_prompt(a))}) = 3
        /\ Cardinality({a \in Roles : IsGenericInstruction(rna_agent_prompt(a), a)}) = 1

\* C13 amended: two roles (swe, docs) map to the generic instruction
\* "run <role> agent" and the other two (qa, pm) map to a string naming the
\* rule file .cursor/rules/<role>-agent.mdc; a run with the role and no -p
\* hands over a string of the corresponding kind.
C13_TwoGenericTwoRuleFiles ==
    /\ RnaResolved =>
           /\ {a \in Roles : ReferencesRuleFile(rna_agent_prompt(a))}
                  = {<<"q", "a">>, <<"p", "m">>}
           /\ {a \in Roles : IsGenericInstruction(rna_agent_prompt(a), a)}
                  = {<<"s", "w", "e">>, <<"d", "o", "c", "s">>}
    /\ (RnaResolved /\ args.prompt = None /\ args.agent # None) =>
           /\ ReferencesRuleFile(prompt) <=> args.agent \in {<<"q", "a">>, <<"p", "m">>}
           /\ IsGenericInstruction(prompt, args.agent)
                  <=> args.agent \in {<<"s", "w", "e">>, <<"d", "o", "c", "s">>}

\* the docs role was run and the generic instruction was handed over
C13_Witness ==
    /\ Exited
    /\ script = RNA
    /\ args.prompt = None
    /\ args.agent = <<"d", "o", "c", "s">>
    /\ prompt = <<"r", "u", "n", " ", "d", "o", "c", "s", " ", "a", "g", "e", "n", "t">>
    /\ ~ReferencesRuleFile(prompt)

\* the effective prompt the specification prescribes for (prompt, model)
AnnotatedPrompt(p, m) ==
    IF ~Truthy(m) THEN p
    ELSE IF Truthy(p) THEN p \o <<" ", "(", "m", "o", "d", "e", "l", ":", " ">> \o m \o <<")">>
    ELSE <<"(", "m", "o", "d", "e", "l", ":", " ">> \o m \o <<")">>

\* C14: in run_new_agent.py the effective prompt is prompt + " (model: X)"
\* when a prompt and a model are given, "(model: X)" when only a model is
\* given, the prompt unchanged without a model and no value with neither; and
\* that one value is the cursor-agent argument, the text typed by the
\* keystroke script (after escaping) and the prompt of the printed guidance.
C14_EffectivePromptEverywhere ==
    RnaResolved =>
        /\ full_prompt = AnnotatedPrompt(prompt, args.model)
        /\ (prompt = None /\ args.model = None) => full_prompt = None
        /\ \A i \in DOMAIN calls :
               /\ calls[i].tool = "cursor-agent" => calls[i].arg = full_prompt
               /\ calls[i].tool = "osascript chat" =>
                      calls[i].arg = IF Truthy(full_prompt)
                                       THEN EscapeCharwise(full_prompt)
                                       ELSE None
        /\ \A i \in DOMAIN out :
               out[i].msg \in {"Prompt:", "Then paste this prompt:", "Press Cmd+T and paste:"}
                   => out[i].arg = full_prompt

\* -p a -m m: cursor-agent, the keystroke script and the paste guidance all
\* worked with "a (model: m)"
C14_Witness ==
    /\ Exited
    /\ script = RNA
    /\ args.prompt = <<"a">>
    /\ args.model = <<"m">>
    /\ full_prompt = <<"a", " ", "(", "m", "o", "d", "e", "l", ":", " ", "m", ")">>
    /\ Len(calls) = 5
    /\ calls[1].arg = full_prompt
    /\ calls[4].arg = full_prompt
    /\ Printed("Press Cmd+T and paste:")

\* C15: however cursor-agent fails (command absent, timeout, other error,
\* non-zero exit), the step prints nothing and leaves the dispatch in the same
\* position: the failed call is the first one, nothing has been printed and no
\* result set when it returns, and the next invocation is the activation on
\* macOS and the launch elsewhere.  What follows depends on that position
\* only, so runs that differ in the cause alone continue identically.
C15_AgentFailuresAlike ==
    \A i \in DOMAIN calls :
        AgentFailed(calls[i]) =>
            /\ i = 1
            /\ calls[i].outcome.exc
                   \in {"none", "FileNotFoundError", "TimeoutExpired", "OSError"}
            /\ NextIs(i, IF platform = "darwin" THEN "osascript activate" ELSE "cursor")
            /\ IsLast(i) => out = <<>> /\ success = "unset" /\ exitCode = -1
            /\ \A k \in DOMAIN out : out[k].msg # "Opened chat with cursor-agent CLI"

\* cursor-agent timed out on macOS and the activation is about to be run,
\* with nothing printed
C15_Witness ==
    /\ pc = "activate"
    /\ Len(calls) = 1
    /\ calls[1].tool = "cursor-agent"
    /\ calls[1].outcome.exc = "TimeoutExpired"
    /\ out = <<>>

\* the warning of the AppleScript block came right after the i-th invocation
WarnedThenLaunch(i) ==
    /\ Printed("AppleScript method failed:")
    /\ NextIs(i, "cursor")

\* C17: on macOS, when the keystroke command exits non-zero without the
\* permission texts, or the activation or the keystroke command raises, a
\* warning is printed, the launcher is run next, and the result of the run is
\* the launch's: success if the launcher ran, failure if it was not found.
C17_FallThroughToLaunch ==
    \A i \in DOMAIN calls :
        ( \/ ChatFailedOtherwise(calls[i])
          \/ calls[i].tool = "osascript activate" /\ RaisedIn(calls[i]) ) =>
            /\ platform = "darwin"
            /\ WarnedThenLaunch(i)
            /\ Cardinality({k \in DOMAIN out : out[k].msg = "AppleScript method failed:"}) = 1
            /\ Terminated =>
                   /\ Len(calls) = i + 1
                   /\ LaunchStarted(calls[i + 1]) =>
                          success = "True" /\ (Exited => exitCode = 0)
                   /\ LaunchNotFound(calls[i + 1]) =>
                          success = "False" /\ (Exited => exitCode = 1)
                   /\ "cursor" \in installed <=> ~LaunchNotFound(calls[i + 1])

\* osascript could not be executed at all, and the missing launcher made the
\* run fail
C17_Witness ==
    /\ Exited
    /\ exitCode = 1
    /\ "osascript" \notin installed
    /\ Len(calls) >= 2
    /\ calls[Len(calls) - 1].tool = "osascript activate"
    /\ RaisedIn(calls[Len(calls) - 1])
    /\ LaunchNotFound(calls[Len(calls)])

\* C18: whenever the launcher could be started, whatever status it returned,
\* the dispatch returns success (exit code 0) and prints the manual guidance
\* (Cmd+T, with the prompt to paste when there is one); the launcher's
\* argument is the -w path, or the current directory without -w.
C18_LaunchSucceedsIfStarted ==
    \A i \in DOMAIN calls :
        /\ calls[i].tool = "cursor" =>
               calls[i].arg = IF args.workspace = None THEN cwd ELSE args.workspace
        /\ LaunchStarted(calls[i]) =>
               /\ IsLast(i)
               /\ Terminated
               /\ success = "True"
               /\ Exited => exitCode = 0
               /\ Printed("Opened Cursor")
               /\ IF Truthy(EffectivePrompt)
                    THEN \E k \in DOMAIN out :
                             /\ out[k].msg = "Press Cmd+T and paste:"
                             /\ out[k].arg = EffectivePrompt
                    ELSE Printed("Press Cmd+T to open a new chat")

\* the launcher exited non-zero in the current directory, and the run still
\* exited with 0
C18_Witness ==
    /\ Exited
    /\ exitCode = 0
    /\ args.workspace = None
    /\ calls # <<>>
    /\ calls[Len(calls)].tool = "cursor"
    /\ calls[Len(calls)].arg = cwd
    /\ ExitedNonZero(calls[Len(calls)])

\* C16 as stated: the cursor-agent call is bounded by its timeout and only
\* the keystroke command can block: no other step (activation, last-resort
\* launch) makes the dispatch hang.
C16_OnlyKeystrokesCanHang ==
    pc = "hung" => calls[Len(calls)].tool = "osascript chat"

\* C16 amended: the cursor-agent call is bounded by its timeout; the three
\* commands run without a timeout (activation, keystroke simulation,
\* last-resort launch) can each block; every run in which none of them
\* blocks eventually exits.
C16_UntimedCommandsCanHang ==
    /\ [](pc = "hung" =>
            calls[Len(calls)].tool \in {"osascript activate", "osascript chat", "cursor"})
    /\ <>(Exited \/ pc = "hung")

\* cursor-agent ran into its timeout, the dispatch went on, and the launcher
\* then blocked
C16_Witness ==
    /\ pc = "hung"
    /\ Len(calls) = 2
    /\ calls[1].tool = "cursor-agent"
    /\ calls[1].outcome.exc = "TimeoutExpired"
    /\ calls[2].tool = "cursor"

SuccessMessages ==
    { "Opened chat with cursor-agent CLI",
      "Opened new chat in Cursor (using AppleScript)",
      "Opened Cursor" }

\* an invocation whose outcome ends the dispatch
Final(c) ==
    \/ AgentOk(c)
    \/ ActivateRefused(c)
    \/ ChatOk(c)
    \/ ChatPermissionDenied(c)
    \/ c.tool = "cursor"

\* C20: a run prints at most one success message, invokes nothing after the
\* invocation that decided its result, and when the dispatcher has returned
\* main exits with 0 exactly for success and with 1 exactly for failure.
C20_OneOutcomePerRun ==
    /\ Cardinality({k \in DOMAIN out : out[k].msg \in SuccessMessages}) <= 1
    /\ \A i \in DOMAIN calls : Final(calls[i]) => IsLast(i) /\ Terminated
    /\ Terminated => calls # <<>> /\ Final(calls[Len(calls)])
    /\ success # "unset" => Terminated
    /\ success = "True" =>
           Cardinality({k \in DOMAIN out : out[k].msg \in SuccessMessages}) = 1
               \/ Some(ChatPermissionDenied)
    /\ Exited =>
           /\ exitCode = 0 <=> success = "True"
           /\ success # "unset" => (exitCode = 1 <=> success = "False")

\* run_new_agent.py exited with 1 after the launcher was not found, having
\* printed no success message
C20_Witness ==
    /\ Exited
    /\ script = RNA
    /\ exitCode = 1
    /\ success = "False"
    /\ Some(LaunchNotFound)
    /\ \A k \in DOMAIN out : out[k].msg \notin SuccessMessages

\* the first k external commands had the same outcome in both runs
SameOutcomes(k) ==
    \A j \in 1..k :
        /\ j \in DOMAIN other.calls
        /\ j \in DOMAIN calls
        /\ other.calls[j].outcome = calls[j].outcome

\* C19: with no role and no model, run_new_agent.py behaves like
\* open_cursor_chat.py: as long as the external commands have had the same
\* outcomes in both runs, the next invocation is the same mechanism with the
\* same prompt, and when all outcomes were the same the two runs make the
\* same invocations and exit with the same code.
C19_EntryPointsEquivalent ==
    (script = RNA /\ other.done) =>
        /\ \A k \in DOMAIN calls :
               SameOutcomes(k - 1) =>
                   /\ k \in DOMAIN other.calls
                   /\ other.calls[k].tool = calls[k].tool
                   /\ other.calls[k].arg = calls[k].arg
                   /\ other.calls[k].model = calls[k].model
        /\ (Exited /\ SameOutcomes(Len(calls))) =>
               /\ Len(other.calls) = Len(calls)
               /\ other.exitCode = exitCode

\* both scripts went through all mechanisms with a prompt that needs
\* escaping and ended alike
C19_Witness ==
    /\ script = RNA
    /\ other.done
    /\ Exited
    /\ args.prompt = <<DQ, BS>>
    /\ Len(calls) = 5
    /\ calls = other.calls
    /\ exitCode = other.exitCode

====
